---- MODULE Spec2Model ----
(***************************************************************************)
(* A model of sfzGen.py: the filename tokenizer/classifier (parseNote,     *)
(* scanLayer), the per-layer sample registry, the amplitude analyzer's     *)
(* effect on the sample records, and the emitter (printNote, printDynamic, *)
(* printLayer, printInstrument) with the main sequence that drives them.   *)
(*                                                                         *)
(* Text is a sequence of one-character strings.  A Python value that may   *)
(* be None is a set: {} is None and {v} is the value v.  A dict is a       *)
(* function whose DOMAIN is the dict's key set.  The output file is a      *)
(* sequence of blocks (the header, <group> and <region>), each a record of *)
(* the directives printed into it.                                         *)
(***************************************************************************)
EXTENDS Integers, Sequences, FiniteSets, TLC

VARIABLES
    args,         \* the parsed command line
    globalLayer,  \* the Global object
    layers,       \* the list of Layer objects, each with its registry
    li,           \* position of the scan loop in layers
    scanned,      \* the filenames of the current listing already handled
    info,         \* the last event written to the info stream
    stderr,       \* the last message written to stderr
    pc,           \* position in the main sequence
    outfile       \* the blocks written to the output so far

vars == <<args, globalLayer, layers, li, scanned, info, stderr, pc, outfile>>

----------------------------------------------------------------------------
(* Bounds of the model.                                                    *)

MaxFiles == 3

----------------------------------------------------------------------------
(* Python values.                                                          *)

None == {}

Some(x) == {x}

The(o) == CHOOSE x \in o : TRUE

Truthy(o) == o # None /\ o # Some(0)

EmptyDict == <<>>

Get(d, k, default) == IF k \in DOMAIN d THEN d[k] ELSE default

Min(S) == CHOOSE x \in S : \A y \in S : x <= y

RECURSIVE Sorted(_)
Sorted(S) == IF S = {} THEN <<>> ELSE <<Min(S)>> \o Sorted(S \ {Min(S)})

Reversed(s) == [i \in 1..Len(s) |-> s[Len(s) + 1 - i]]

FloorDiv(a, b) == a \div b

----------------------------------------------------------------------------
(* Text.                                                                   *)

Digits == <<"0", "1", "2", "3", "4", "5", "6", "7", "8", "9">>

UpperCase == <<"A", "B", "C", "D", "E", "F", "G", "H", "I", "J", "K", "L", "M",
               "N", "O", "P", "Q", "R", "S", "T", "U", "V", "W", "X", "Y", "Z">>

LowerCase == <<"a", "b", "c", "d", "e", "f", "g", "h", "i", "j", "k", "l", "m",
               "n", "o", "p", "q", "r", "s", "t", "u", "v", "w", "x", "y", "z">>

Range(s) == {s[i] : i \in 1..Len(s)}

IsDigit(c) == c \in Range(Digits)

DigitVal(c) == (CHOOSE i \in 1..Len(Digits) : Digits[i] = c) - 1

LowerChar(c) ==
    IF c \in Range(UpperCase)
    THEN LowerCase[CHOOSE i \in 1..Len(UpperCase) : UpperCase[i] = c]
    ELSE c

lower(s) == [i \in 1..Len(s) |-> LowerChar(s[i])]

AllDigits(s) == Len(s) >= 1 /\ \A i \in 1..Len(s) : IsDigit(s[i])

AllChar(s, c) == Len(s) >= 1 /\ \A i \in 1..Len(s) : s[i] = c

From(s, i) == SubSeq(s, i, Len(s))

EndsWith(s, t) == Len(s) >= Len(t) /\ From(s, Len(s) - Len(t) + 1) = t

StartsWith(s, t) == Len(s) >= Len(t) /\ SubSeq(s, 1, Len(t)) = t

Contains(s, t) == \E i \in 1..(Len(s) + 1) : StartsWith(From(s, i), t)

RECURSIVE DigitsToInt(_)
DigitsToInt(s) ==
    IF s = <<>> THEN 0
    ELSE 10 * DigitsToInt(SubSeq(s, 1, Len(s) - 1)) + DigitVal(s[Len(s)])

IsSignedInt(s) == AllDigits(s) \/ (Len(s) >= 2 /\ s[1] = "-" /\ AllDigits(Tail(s)))

int(s) == IF s[1] = "-" THEN 0 - DigitsToInt(Tail(s)) ELSE DigitsToInt(s)

RECURSIVE TrailingDigits(_)
TrailingDigits(s) ==
    IF s = <<>> \/ ~IsDigit(s[Len(s)]) THEN <<>>
    ELSE TrailingDigits(SubSeq(s, 1, Len(s) - 1)) \o <<s[Len(s)]>>

RECURSIVE Split(_, _)
Split(s, sep) ==
    IF \A i \in 1..Len(s) : s[i] # sep THEN <<s>>
    ELSE LET i == Min({j \in 1..Len(s) : s[j] = sep})
         IN  <<SubSeq(s, 1, i - 1)>> \o Split(From(s, i + 1), sep)

RECURSIVE Join(_, _)
Join(toks, sep) ==
    IF Len(toks) = 0 THEN <<>>
    ELSE IF Len(toks) = 1 THEN toks[1]
    ELSE toks[1] \o <<sep>> \o Join(Tail(toks), sep)

----------------------------------------------------------------------------
(* The patterns and the note table.                                        *)

noteNames == [c |-> 0, d |-> 2, e |-> 4, f |-> 5, g |-> 7, a |-> 9, b |-> 11]

R_note(f) ==
    IF Len(f) >= 2 /\ f[1] \in DOMAIN noteNames
    THEN LET rest == Tail(f)
         IN  IF rest[1] \in {"#", "b"} /\ IsSignedInt(Tail(rest))
             THEN Some([letter |-> f[1], accidental |-> Some(rest[1]), octave |-> Tail(rest)])
             ELSE IF IsSignedInt(rest)
             THEN Some([letter |-> f[1], accidental |-> None, octave |-> rest])
             ELSE None
    ELSE None

Extensions == {<<".", "w", "a", "v">>, <<".", "o", "g", "g">>, <<".", "f", "l", "a", "c">>}

R_format_search(name) == \E x \in Extensions : EndsWith(name, x)

R_format_sub(name) ==
    IF R_format_search(name)
    THEN LET x == CHOOSE y \in Extensions : EndsWith(name, y)
         IN  SubSeq(name, 1, Len(name) - Len(x))
    ELSE name

R_dyn(f) ==
    \/ AllChar(f, "p")
    \/ f = <<"m", "p">>
    \/ f = <<"m", "f">>
    \/ AllChar(f, "f")
    \/ (Len(f) >= 2 /\ f[1] = "v" /\ AllDigits(Tail(f)))
    \/ (Len(f) >= 3 /\ f[1] = "v" /\ f[2] = "l" /\ AllDigits(From(f, 3)))
    \/ (Len(f) >= 2 /\ f[1] = "l" /\ AllDigits(Tail(f)))

R_num(f) == AllDigits(f)

R_rr(f) ==
    IF Len(f) >= 3 /\ f[1] = "r" /\ f[2] = "r" /\ AllDigits(From(f, 3))
    THEN Some(From(f, 3))
    ELSE None

(* dynToInt with "mf" numbered as "mp" is *)
dynToIntMezzo(dyn) ==
    IF StartsWith(dyn, <<"p">>) THEN 0 - Len(dyn)
    ELSE IF dyn = <<"m", "p">> \/ dyn = <<"m", "f">> THEN 0
    ELSE IF StartsWith(dyn, <<"f">>) THEN Len(dyn) + 1
    ELSE int(TrailingDigits(dyn))

dynToInt(dyn) ==
    IF StartsWith(dyn, <<"p">>) THEN 0 - Len(dyn)
    ELSE IF dyn = <<"m", "p">> THEN 0
    ELSE IF dyn = <<"m", "f">> THEN 1
    ELSE IF StartsWith(dyn, <<"f">>) THEN Len(dyn) + 1
    ELSE int(TrailingDigits(dyn))

----------------------------------------------------------------------------
(* Sample, Global and Layer.  The config document `data` and each layer    *)
(* section are dicts: a key that is absent from the document is absent     *)
(* from the DOMAIN.  volume, attack and release are whole numbers here,    *)
(* and an exponent is the fraction <<p, q>> for p/q.  A split or filter    *)
(* pattern is a literal text; the configs of this model set no sub list.   *)

NoIndex == -255

OneKeyIndex == 60

MiddleC == 60

DefaultExponent == <<3, 5>>

DefaultSplit == <<" ">>

Sample(name) == [name |-> name, offset |-> 0, vol |-> 0, pan |-> 0]

Opt(d, k) == IF k \in DOMAIN d THEN Some(d[k]) ELSE None

Global(layer, a) ==
    [ name           |-> Get(layer, "name", "Generated Instrument"),
      volume         |-> Get(layer, "volume", 0),
      exponent       |-> Get(layer, "exponent", DefaultExponent),
      min            |-> Opt(layer, "min"),
      max            |-> Opt(layer, "max"),
      map            |-> Get(layer, "map", EmptyDict),
      filter         |-> Opt(layer, "filter"),
      split          |-> Get(layer, "split", DefaultSplit),
      octaveOffset   |-> Get(layer, "octave", 0),
      transpose      |-> Get(layer, "transpose", 0),
      indexOffset    |-> IF "middleC" \in DOMAIN layer THEN layer["middleC"] - MiddleC ELSE 0,
      stride         |-> Get(layer, "stride", 1),
      crossfade      |-> "crossfade" \in DOMAIN layer,
      unpitched      |-> "unpitched" \in DOMAIN layer,
      skipAnalysis   |-> "skipAnalysis" \in DOMAIN layer \/ "force" \in DOMAIN layer,
      invertDynamics |-> "invertDynamics" \in DOMAIN layer,
      knobs          |-> IF a.noknobs THEN FALSE ELSE "knobs" \in DOMAIN layer,
      exact          |-> "exact" \in DOMAIN layer ]

Layer(name, layer, g, a) ==
    [ name           |-> name,
      attack         |-> Get(layer, "attack", 0),
      volume         |-> Get(layer, "volume", 0) + g.volume,
      exponent       |-> Get(layer, "exponent", g.exponent),
      min            |-> IF "min" \in DOMAIN layer THEN Some(layer["min"]) ELSE g.min,
      max            |-> IF "max" \in DOMAIN layer THEN Some(layer["max"]) ELSE g.max,
      map            |-> Get(layer, "map", EmptyDict),
      filter         |-> Opt(layer, "filter"),
      split          |-> Get(layer, "split", g.split),
      octaveOffset   |-> Get(layer, "octave", 0) + g.octaveOffset,
      transpose      |-> Get(layer, "transpose", 0) + g.transpose,
      srcDir         |-> layer["source"],
      indexOffset    |-> IF "middleC" \in DOMAIN layer THEN layer["middleC"] - MiddleC
                         ELSE g.indexOffset,
      stride         |-> Get(layer, "stride", g.stride),
      crossfade      |-> "crossfade" \in DOMAIN layer \/ g.crossfade,
      invertDynamics |-> "invertDynamics" \in DOMAIN layer \/ g.invertDynamics,
      unpitched      |-> "unpitched" \in DOMAIN layer \/ g.unpitched,
      isRelease      |-> "isRelease" \in DOMAIN layer \/ name = "release",
      alwaysRelease  |-> "alwaysRelease" \in DOMAIN layer,
      onekey         |-> "onekey" \in DOMAIN layer,
      exact          |-> "exact" \in DOMAIN layer \/ g.exact,
      knob           |-> IF a.noknobs THEN FALSE ELSE "knob" \in DOMAIN layer,
      skipAnalysis   |-> "skipAnalysis" \in DOMAIN layer \/ "force" \in DOMAIN layer,
      dynamics       |-> EmptyDict ]

(* The list of layers the main sequence builds from the document: the one  *)
(* "sustain" section, or the items of "layers" (a sequence of <<name,      *)
(* section>> pairs, in the document's order).                              *)
MakeLayers(data, g, a) ==
    IF "sustain" \in DOMAIN data /\ "layers" \notin DOMAIN data
    THEN <<Layer("sustain", data["sustain"], g, a)>>
    ELSE [i \in 1..Len(data["layers"]) |->
             Layer(data["layers"][i][1], data["layers"][i][2], g, a)]

----------------------------------------------------------------------------
(* The registry  dynamics[dyn][index][rr]  of one layer.                   *)

Level(dynamics, dyn) == Get(dynamics, dyn, EmptyDict)

Store(dynamics, dyn, index, rr, sample) ==
    LET notes  == Level(dynamics, dyn)
        robins == Get(notes, index, EmptyDict)
    IN  (dyn :> ((index :> ((rr :> sample) @@ robins)) @@ notes)) @@ dynamics

Entries(dynamics) ==
    UNION {UNION {{<<d, k, r>> : r \in DOMAIN dynamics[d][k]} : k \in DOMAIN dynamics[d]} :
           d \in DOMAIN dynamics}

----------------------------------------------------------------------------
(* parseNote.                                                              *)

Remap(map, f) == IF f \in DOMAIN map THEN map[f] ELSE f

(* the note index when a flat is raised like a sharp *)
NoteIndexSharpOnly(m) ==
    noteNames[m.letter]
    + (IF m.accidental = None THEN 0 ELSE 1)
    + int(m.octave) * 12

NoteIndex(m) ==
    noteNames[m.letter]
    + (IF m.accidental = None THEN 0 ELSE IF m.accidental = Some("#") THEN 1 ELSE -1)
    + int(m.octave) * 12

(* One pass of the loop over the filename's chunks: t holds index, dyn, rr. *)
Classify(layer, g, t, fc) ==
    LET f == Remap(layer.map, Remap(g.map, lower(fc)))
    IN  IF R_note(f) # None THEN [t EXCEPT !.index = NoteIndex(The(R_note(f)))]
        ELSE IF R_dyn(f) THEN [t EXCEPT !.dyn = dynToInt(f)]
        ELSE IF R_num(f) THEN [t EXCEPT !.index = int(f) * layer.stride - layer.indexOffset]
        ELSE IF R_rr(f) # None THEN [t EXCEPT !.rr = int(The(R_rr(f)))]
        ELSE t

RECURSIVE ClassifyAll(_, _, _, _)
ClassifyAll(layer, g, t, fcs) ==
    IF fcs = <<>> THEN t
    ELSE ClassifyAll(layer, g, Classify(layer, g, t, Head(fcs)), Tail(fcs))

(* The locals index, dyn and rr when the loop over the chunks has ended.   *)
ParsedFields(layer, g, parsed) ==
    ClassifyAll(layer, g, [index |-> NoIndex, dyn |-> 0, rr |-> 0], Split(parsed, layer.split[1]))

(* The index a parsed filename is stored at once the layer's octave and    *)
(* transpose are added.                                                    *)
Shifted(layer, index) == index + layer.octaveOffset * 12 + layer.transpose

(* parseNote: the layer's registry afterwards and the line for the info    *)
(* stream (with the locals it was decided on).                             *)
parseNote(layer, g, filename, parsed) ==
    LET t == ParsedFields(layer, g, parsed)
        line(event, index) ==
            [event |-> event, name |-> filename, parsed |-> t, index |-> index]
    IN  IF t.index = NoIndex
        THEN IF layer.onekey
             THEN [dynamics |-> Store(layer.dynamics, t.dyn, OneKeyIndex, t.rr, Sample(filename)),
                   info     |-> line("stored", Some(OneKeyIndex))]
             ELSE IF layer.unpitched
             THEN LET index == Cardinality(DOMAIN Level(layer.dynamics, t.dyn))
                  IN  [dynamics |-> Store(layer.dynamics, t.dyn, index, t.rr, Sample(filename)),
                       info     |-> line("stored", Some(index))]
             ELSE [dynamics |-> layer.dynamics, info |-> line("unknown", None)]
        ELSE LET index == Shifted(layer, t.index)
             IN  IF index < 0
                 THEN [dynamics |-> layer.dynamics, info |-> line("negative", None)]
                 ELSE [dynamics |-> Store(layer.dynamics, t.dyn, index, t.rr, Sample(filename)),
                       info     |-> line("stored", Some(index))]

(* The body of scanLayer's loop for one name of the listing: whether the   *)
(* name reaches parseNote, and what it is parsed as.                       *)
Accepted(layer, g, filename) ==
    /\ R_format_search(filename)
    /\ (g.filter = None \/ Contains(R_format_sub(filename), The(g.filter)))
    /\ (layer.filter = None \/ Contains(R_format_sub(filename), The(layer.filter)))

----------------------------------------------------------------------------
(* velBorder:  int((i/ln) ** exponent * 128)  for the exponent p/q, as the *)
(* largest v with  v^q * ln^p <= 128^q * i^p  (numerator and denominator   *)
(* change places when p is negative).  The products exceed the machine     *)
(* integers of the checker, so they are computed on numerals: sequences of *)
(* base-10000 digits, least significant first.  (A set of one element     *)
(* binds an intermediate result, so that it is computed once.)             *)

VelocitySteps == 128

NumeralBase == 10000

RECURSIVE NumTimes(_, _, _)
NumTimes(n, k, carry) ==
    IF n = <<>> THEN (IF carry = 0 THEN <<>> ELSE <<carry>>)
    ELSE LET t == Head(n) * k + carry
         IN  <<t % NumeralBase>> \o NumTimes(Tail(n), k, t \div NumeralBase)

RECURSIVE NumTimesPow(_, _, _)
NumTimesPow(n, k, e) ==
    IF e = 0 THEN n
    ELSE The({NumTimesPow(m, k, e - 1) : m \in {NumTimes(n, k, 0)}})

RECURSIVE NumLeq(_, _)
NumLeq(m, n) ==
    IF Len(m) # Len(n) THEN Len(m) < Len(n)
    ELSE IF m = <<>> THEN TRUE
    ELSE IF m[Len(m)] # n[Len(n)] THEN m[Len(m)] < n[Len(n)]
    ELSE NumLeq(SubSeq(m, 1, Len(m) - 1), SubSeq(n, 1, Len(n) - 1))

Abs(x) == IF x < 0 THEN 0 - x ELSE x

(* v <= (num/den)^(r/q) * 128, for v >= 1 *)
AtMostPower(v, num, den, r, q) ==
    NumLeq(NumTimesPow(NumTimesPow(<<1>>, v, q), den, r),
           NumTimesPow(NumTimesPow(<<1>>, VelocitySteps, q), num, r))

RECURSIVE LargestAtMost(_, _, _, _, _, _)
LargestAtMost(lo, hi, num, den, r, q) ==
    IF lo = hi THEN lo
    ELSE The({ IF AtMostPower(mid, num, den, r, q)
               THEN LargestAtMost(mid, hi, num, den, r, q)
               ELSE LargestAtMost(lo, mid - 1, num, den, r, q) :
               mid \in {(lo + hi + 1) \div 2} })

RECURSIVE IntPow(_, _)
IntPow(k, e) == IF e = 0 THEN 1 ELSE k * IntPow(k, e - 1)

velBorder(layer, i, ln) ==
    LET p   == layer.exponent[1]
        q   == layer.exponent[2]
        num == IF p >= 0 THEN i ELSE ln
        den == IF p >= 0 THEN ln ELSE i
        top == VelocitySteps * (IF num > den THEN IntPow(num, Abs(p)) ELSE 1)
    IN  LargestAtMost(0, top, num, den, Abs(p), q)

----------------------------------------------------------------------------
(* The emitter.  A block records the arguments of the call that printed it *)
(* and, per directive, the value printed ({} when the directive is not     *)
(* printed).                                                               *)

RECURSIVE ConcatAll(_)
ConcatAll(ss) == IF ss = <<>> THEN <<>> ELSE Head(ss) \o ConcatAll(Tail(ss))

(* line 451 builds  ('volume=%f' % note.vol) + layer.volume , a str plus a *)
(* float: the expression raises TypeError whenever the branch is entered,  *)
(* and nothing of the volume line is printed.                              *)
printNote(layer, note, index, low, high, rr, rrLen) ==
    LET single == layer.exact \/ (low = Some(index) /\ high = Some(index))
    IN  [ kind            |-> "region",
          layer           |-> layer.name,
          index           |-> index,
          low             |-> low,
          high            |-> high,
          rr              |-> rr,
          rrLen           |-> rrLen,
          seq_length      |-> IF rrLen > 1 THEN Some(rrLen) ELSE None,
          seq_position    |-> IF rrLen > 1 THEN Some(rr + 1) ELSE None,
          sample          |-> <<layer.srcDir, note.name>>,
          key             |-> IF single THEN Some(index) ELSE None,
          pitch_keycenter |-> IF single THEN None ELSE Some(index),
          lokey           |-> IF ~single /\ Truthy(low) THEN low ELSE None,
          hikey           |-> IF ~single /\ Truthy(high) THEN high ELSE None,
          offset          |-> IF note.offset > 0 THEN Some(note.offset) ELSE None,
          pan             |-> IF note.pan # 0 THEN Some(note.offset) ELSE None,
          volume          |-> None,
          raised          |-> note.vol # 0 ]

(* borders of line 486 over the sorted keys of one dynamic level *)
Borders(keys) == [i \in 1..(Len(keys) - 1) |-> FloorDiv(keys[i] + keys[i + 1], 2)]

(* a low bound that starts on the border itself *)
KeyLowOverlap(keys, i) == IF i # 1 THEN Some(Borders(keys)[i - 1]) ELSE None

(* the low and high bound lines 492-493 compute for the i-th sorted key *)
KeyLow(keys, i) == IF i # 1 THEN Some(Borders(keys)[i - 1] + 1) ELSE None

KeyHigh(keys, i) == IF i # Len(keys) THEN Some(Borders(keys)[i]) ELSE None

(* the tests of lines 495-498: the key is left out of the output *)
OutOfRange(layer, index) ==
    \/ (Truthy(layer.min) /\ The(layer.min) > index)
    \/ (Truthy(layer.max) /\ The(layer.max) < index)

printDynamic(layer, g, a, dyn, notes, low, high, cc) ==
    LET keys == Sorted(DOMAIN notes)
        group ==
            [ kind           |-> "group",
              layer          |-> layer.name,
              dyn            |-> dyn,
              low            |-> low,
              high           |-> high,
              keys           |-> keys,
              borders        |-> Borders(keys),
              ampeg_attack   |-> IF layer.attack > 0 THEN Some(layer.attack) ELSE None,
              trigger        |-> IF ~layer.isRelease THEN None
                                 ELSE IF layer.alwaysRelease THEN Some("release_key")
                                 ELSE Some("release"),
              gain_oncc205   |-> layer.isRelease /\ g.knobs /\ ~a.noknobs,
              pitch_keytrack |-> IF layer.unpitched THEN Some(0) ELSE None,
              lovel          |-> IF Truthy(low) THEN low ELSE None,
              hivel          |-> IF Truthy(high) THEN high ELSE None,
              volume         |-> IF layer.volume # 0 THEN Some(layer.volume) ELSE None,
              xfin           |-> IF layer.knob THEN Some(cc) ELSE None ]
        regions(i) ==
            LET index == keys[i]
                rrs   == Sorted(DOMAIN notes[index])
            IN  IF OutOfRange(layer, index) THEN <<>>
                ELSE [j \in 1..Len(rrs) |->
                         printNote(layer, notes[index][rrs[j]], index,
                                   KeyLow(keys, i), KeyHigh(keys, i), j - 1, Len(rrs))]
    IN  <<group>> \o ConcatAll([i \in 1..Len(keys) |-> regions(i)])

(* the order printLayer takes the dynamic levels in *)
LevelOrder(layer) ==
    IF layer.invertDynamics THEN Reversed(Sorted(DOMAIN layer.dynamics))
    ELSE Sorted(DOMAIN layer.dynamics)

(* the velocity bounds printLayer passes for the level at position i (from 0) *)
VelLow(layer, i, dynLen) == IF i # 0 THEN Some(velBorder(layer, i, dynLen)) ELSE None

VelHigh(layer, i, dynLen) ==
    IF i # dynLen - 1 THEN Some(velBorder(layer, i + 1, dynLen) - 1) ELSE None

FirstKnobCC == 301

printLayer(layer, g, a, l) ==
    LET dynLen  == Cardinality(DOMAIN layer.dynamics)
        _sorted == LevelOrder(layer)
    IN  ConcatAll([x \in 1..dynLen |->
            printDynamic(layer, g, a, _sorted[x], layer.dynamics[_sorted[x]],
                         VelLow(layer, x - 1, dynLen), VelHigh(layer, x - 1, dynLen),
                         FirstKnobCC + l)])

(* the layers printInstrument prints *)
Printed(layer, a) == ~(a.noreleases /\ layer.isRelease)

(* everything printInstrument prints when no call raises: the header with  *)
(* the control and global blocks, then the layers                          *)
printInstrument(ls, g, a) ==
    <<[kind |-> "global", decorated |-> ~a.nodecor, knobs |-> ~a.noknobs /\ g.knobs]>>
    \o ConcatAll([l \in 1..Len(ls) |->
                     IF Printed(ls[l], a) THEN printLayer(ls[l], g, a, l - 1) ELSE <<>>])

Raises(block) == block.kind = "region" /\ block.raised

(* what reaches the output: the blocks up to the first one in which        *)
(* printNote raises, that one cut short                                    *)
UpToRaise(blocks) ==
    IF \E i \in 1..Len(blocks) : Raises(blocks[i])
    THEN SubSeq(blocks, 1, Min({i \in 1..Len(blocks) : Raises(blocks[i])}))
    ELSE blocks

----------------------------------------------------------------------------
(* The inputs of a run: the command line, the config document and the      *)
(* names the layers' source directories list.  Three families of runs are  *)
(* checked: the directory "names" with the documents that vary how a name  *)
(* is parsed, the directories "keys" and "release" with the documents that *)
(* vary how keys are printed, and the directory "levels" with the          *)
(* documents that vary the velocity curve.                                 *)

MaxNames == 2

wav == <<".", "w", "a", "v">>

Name(toks) == Join(toks, " ") \o wav

NoteTokens == {<<"c", "3">>, <<"a", "-", "2", "2">>}

OtherTokens == {<<"m", "f">>, <<"5">>, <<"r", "r", "2">>, <<"x">>}

ScanNames ==
    {Name(<<t>>) : t \in NoteTokens \cup OtherTokens}
    \cup {Name(<<n, o>>) : <<n, o>> \in NoteTokens \X OtherTokens}
    \cup {Name(<<o, n>>) : <<n, o>> \in NoteTokens \X OtherTokens}
    \cup { <<"c", "3", "_", "m", "f", "_", "r", "r", "2">> \o wav,
           <<"D", "b", "0", ".", "o", "g", "g">>,
           <<"c", "#", "-", "1", ".", "f", "l", "a", "c">>,
           <<"c", "3", ".", "t", "x", "t">>,
           Name(<<<<"c", "3">>, <<"d", "4">>>>) }

KeyNames ==
    { Name(<<<<"c", "0">>>>), Name(<<<<"c", "#", "0">>>>), Name(<<<<"f", "0">>>>),
      Name(<<<<"c", "3">>, <<"r", "r", "1">>>>), Name(<<<<"c", "3">>, <<"r", "r", "3">>>>) }

ReleaseNames == {Name(<<<<"c", "3">>>>)}

LevelNames ==
    { Name(<<<<"c", "3">>, <<"p", "p">>>>), Name(<<<<"c", "3">>, <<"m", "f">>>>),
      Name(<<<<"c", "3">>, <<"f", "f">>>>), Name(<<<<"c", "3">>, <<"v", "5">>>>) }

(* the names os.listdir may return for a source directory, and how many *)
DirFiles(srcDir) ==
    CASE srcDir = "names"   -> ScanNames
      [] srcDir = "keys"    -> KeyNames
      [] srcDir = "release" -> ReleaseNames
      [] srcDir = "levels"  -> LevelNames

DirLimit(srcDir) == IF srcDir = "names" THEN MaxNames ELSE MaxFiles

NoFlags == [force |-> FALSE, noreleases |-> FALSE, noknobs |-> FALSE,
            stdout |-> FALSE, nodecor |-> FALSE]

ScanArgs == {[NoFlags EXCEPT !.force = TRUE]}

ScanDocs ==
    { [output |-> "out", sustain |-> [source |-> "names"]],
      [output |-> "out", split |-> <<"_">>, sustain |-> [source |-> "names"]],
      [output |-> "out", sustain |-> [source |-> "names", onekey |-> TRUE]],
      [output |-> "out", unpitched |-> TRUE, sustain |-> [source |-> "names"]],
      [output |-> "out", octave |-> -1, sustain |-> [source |-> "names", transpose |-> 2]],
      [output |-> "out", octave |-> 22, sustain |-> [source |-> "names"]],
      [output |-> "out", stride |-> 2, map |-> (<<"x">> :> <<"m", "f">>),
       sustain |-> [source |-> "names", middleC |-> 48, map |-> (<<"m", "f">> :> <<"f", "f">>)]],
      [output |-> "out", filter |-> <<"c", "3">>, sustain |-> [source |-> "names"]] }

EmitArgs == {NoFlags, [NoFlags EXCEPT !.force = TRUE, !.noreleases = TRUE, !.stdout = TRUE]}

KeyLayers(sustain) == <<<<"sustain", sustain>>, <<"release", [source |-> "release"]>>>>

EmitDocs ==
    { [output |-> "out", layers |-> KeyLayers([source |-> "keys"])],
      [output |-> "out", layers |-> KeyLayers([source |-> "keys", max |-> 0])],
      [output |-> "out", layers |-> KeyLayers([source |-> "keys", min |-> 0, max |-> 5])],
      [output |-> "out", min |-> 1, max |-> 40, layers |-> KeyLayers([source |-> "keys"])],
      [output |-> "out", layers |-> KeyLayers([source |-> "keys", exact |-> TRUE])] }

VelArgs == {[NoFlags EXCEPT !.force = TRUE]}

VelDocs ==
    { [output |-> "out", sustain |-> [source |-> "levels"]],
      [output |-> "out", invertDynamics |-> TRUE, sustain |-> [source |-> "levels"]],
      [output |-> "out", exponent |-> <<1, 1>>, sustain |-> [source |-> "levels"]],
      [output |-> "out", sustain |-> [source |-> "levels", exponent |-> <<7, 1>>]],
      [output |-> "out", sustain |-> [source |-> "levels", exponent |-> <<0, 1>>]],
      [output |-> "out", sustain |-> [source |-> "levels", exponent |-> <<-1, 1>>]] }

----------------------------------------------------------------------------
(* The main sequence.                                                      *)

(* lines 264-274: the objects built from the document *)
Start(data, a) ==
    /\ args = a
    /\ globalLayer = Global(data, a)
    /\ layers = MakeLayers(data, Global(data, a), a)
    /\ li = 1
    /\ scanned = {}
    /\ info = None
    /\ stderr = None
    /\ pc = "scan"
    /\ outfile = <<>>

InitScan == \E data \in ScanDocs, a \in ScanArgs : Start(data, a)

InitEmit == \E data \in EmitDocs, a \in EmitArgs : Start(data, a)

InitVel == \E data \in VelDocs, a \in VelArgs : Start(data, a)

NextLayer ==
    /\ li' = li + 1
    /\ scanned' = {}
    /\ pc' = IF li = Len(layers) THEN "analyze" ELSE "scan"

(* scanLayer, lines 340-344: the directory cannot be listed *)
ScanLayerFail ==
    /\ pc = "scan"
    /\ scanned = {}
    /\ stderr' = Some("Failed to open specified layer directory")
    /\ NextLayer
    /\ UNCHANGED <<args, globalLayer, layers, info, outfile>>

(* scanLayer, lines 346-367: the loop body for the next name of the listing *)
ScanFile ==
    /\ pc = "scan"
    /\ Cardinality(scanned) < DirLimit(layers[li].srcDir)
    /\ \E filename \in DirFiles(layers[li].srcDir) \ scanned :
          /\ scanned' = scanned \cup {filename}
          /\ IF Accepted(layers[li], globalLayer, filename)
             THEN \E r \in {parseNote(layers[li], globalLayer, filename, R_format_sub(filename))} :
                     /\ layers' = [layers EXCEPT ![li].dynamics = r.dynamics]
                     /\ info' = Some(r.info)
             ELSE UNCHANGED <<layers, info>>
    /\ UNCHANGED <<args, globalLayer, li, stderr, pc, outfile>>

(* scanLayer, line 346: the listing is exhausted *)
ScanLayerEnd ==
    /\ pc = "scan"
    /\ NextLayer
    /\ UNCHANGED <<args, globalLayer, layers, info, stderr, outfile>>

(* analyzeFile, lines 384-407, as its effect on one sample record: the     *)
(* file cannot be read (the record is untouched); a stereo file (offset    *)
(* and vol are set); a mono file (vol is set to the percentile minus 4.5,  *)
(* a negative number, whose log10 then raises).                            *)
OnsetFrames == 120

AnalyzeOutcomes ==
    { [offset |-> 0, vol |-> 0, raised |-> TRUE],
      [offset |-> OnsetFrames, vol |-> 6, raised |-> FALSE],
      [offset |-> 0, vol |-> -4, raised |-> TRUE] }

Analyzed(ls) == {l \in 1..Len(ls) : ~(ls[l].isRelease \/ ls[l].skipAnalysis)}

AnalyzeTargets(ls) ==
    UNION {{<<l>> \o e : e \in Entries(ls[l].dynamics)} : l \in Analyzed(ls)}

(* the layers after analyzeFile had the outcome  result[<<l, dyn, index, rr>>] *)
WithAnalysis(ls, result) ==
    [l \in 1..Len(ls) |->
        IF l \notin Analyzed(ls) THEN ls[l]
        ELSE [ls[l] EXCEPT !.dynamics =
                [d \in DOMAIN @ |-> [k \in DOMAIN @[d] |-> [r \in DOMAIN @[d][k] |->
                    [@[d][k][r] EXCEPT !.offset = result[<<l, d, k, r>>].offset,
                                       !.vol = result[<<l, d, k, r>>].vol]]]]]]

(* analyzeLayers, lines 371-425 *)
AnalyzeLayers ==
    /\ pc = "analyze"
    /\ pc' = "open"
    /\ \E imported \in (IF args.force \/ globalLayer.skipAnalysis THEN {FALSE} ELSE BOOLEAN) :
          IF args.force \/ globalLayer.skipAnalysis
          THEN UNCHANGED <<layers, stderr>>
          ELSE IF ~imported
          THEN /\ stderr' = Some("Soundfile and Numpy libraries required for file analysis")
               /\ UNCHANGED layers
          ELSE \E result \in [AnalyzeTargets(layers) -> AnalyzeOutcomes] :
                  /\ layers' = WithAnalysis(layers, result)
                  /\ stderr' = IF \E t \in DOMAIN result : result[t].raised
                               THEN Some("Failed to open sample") ELSE stderr
    /\ UNCHANGED <<args, globalLayer, li, scanned, info, outfile>>

(* lines 574-578 *)
OpenOutput ==
    /\ pc = "open"
    /\ \E opened \in (IF args.stdout THEN {TRUE} ELSE BOOLEAN) :
          IF opened
          THEN pc' = "print" /\ UNCHANGED stderr
          ELSE pc' = "exit" /\ stderr' = Some("Failed to open output file")
    /\ UNCHANGED <<args, globalLayer, layers, li, scanned, info, outfile>>

(* line 580: printInstrument; an exception a printNote raises ends the run *)
PrintInstrument ==
    /\ pc = "print"
    /\ \E blocks \in {printInstrument(layers, globalLayer, args)} :
          /\ outfile' = UpToRaise(blocks)
          /\ pc' = IF \E i \in 1..Len(blocks) : Raises(blocks[i]) THEN "raised" ELSE "close"
    /\ UNCHANGED <<args, globalLayer, layers, li, scanned, info, stderr>>

(* lines 582-588 *)
CloseOutput ==
    /\ pc = "close"
    /\ pc' = "done"
    /\ UNCHANGED <<args, globalLayer, layers, li, scanned, info, stderr, outfile>>

Next ==
    \/ ScanLayerFail
    \/ ScanFile
    \/ ScanLayerEnd
    \/ AnalyzeLayers
    \/ OpenOutput
    \/ PrintInstrument
    \/ CloseOutput

Spec == InitScan /\ [][Next]_vars

SpecEmit == InitEmit /\ [][Next]_vars

SpecVel == InitVel /\ [][Next]_vars

----------------------------------------------------------------------------
(* Vocabulary of the properties.                                           *)

(* the layer being scanned, and what the last parsed name was decided on *)
Scanning == pc = "scan" /\ li <= Len(layers)

(* the chunks of a name as parseNote classifies them *)
Chunks(layer, g, name) ==
    LET fcs == Split(R_format_sub(name), layer.split[1])
    IN  [i \in 1..Len(fcs) |-> Remap(layer.map, Remap(g.map, lower(fcs[i])))]

PitchClass(letter) ==
    CASE letter = "c" -> 0 [] letter = "d" -> 2 [] letter = "e" -> 4 [] letter = "f" -> 5
      [] letter = "g" -> 7 [] letter = "a" -> 9 [] letter = "b" -> 11

(* pitchClass(letter) + (1 for '#', -1 for 'b') + 12*int of a note token *)
ClaimedNoteKey(tok) ==
    LET accidental == Len(tok) >= 3 /\ tok[2] \in {"#", "b"}
        semitone   == IF ~accidental THEN 0 ELSE IF tok[2] = "#" THEN 1 ELSE -1
        number     == IF accidental THEN From(tok, 3) ELSE From(tok, 2)
        magnitude  == DigitsToInt(IF number[1] = "-" THEN Tail(number) ELSE number)
    IN  PitchClass(tok[1]) + semitone + 12 * (IF number[1] = "-" THEN 0 - magnitude ELSE magnitude)

IsNoteToken(tok) == R_note(tok) # None

IsKeyToken(tok) == IsNoteToken(tok) \/ AllDigits(tok)

(* positions of the chunks that name a key: notes and plain numbers *)
KeyPositions(chunks) == {i \in 1..Len(chunks) : IsKeyToken(chunks[i])}

Max(S) == CHOOSE x \in S : \A y \in S : y <= x

DefaultParsing(layer, g) ==
    /\ g.map = EmptyDict /\ layer.map = EmptyDict
    /\ layer.octaveOffset = 0 /\ layer.transpose = 0
    /\ layer.indexOffset = 0 /\ layer.stride = 1
    /\ g.filter = None /\ layer.filter = None
    /\ ~layer.onekey /\ ~layer.unpitched

C1Name == <<"c", "3", "_", "m", "f", "_", "r", "r", "2">> \o wav

OnlyC1NameScanned == Scanning /\ li = 1 /\ scanned = {C1Name}

----------------------------------------------------------------------------
(* C1, as stated: with the default configuration, scanning the single name *)
(* "c3_mf_rr2.wav" into an empty layer leaves exactly one registry entry,  *)
(* at dynamics[1][36][2].                                                  *)
C1_AsStated ==
    (OnlyC1NameScanned /\ DefaultParsing(layers[1], globalLayer) /\ layers[1].split = DefaultSplit)
        => Entries(layers[1].dynamics) = {<<1, 36, 2>>}

(* C1, amended: with split set to "_" and the configuration otherwise at   *)
(* its defaults, scanning the single name "c3_mf_rr2.wav" into an empty    *)
(* layer leaves exactly one registry entry, at dynamics[1][36][2], holding *)
(* that name; with the default split (one space) the name is one chunk,    *)
(* nothing is stored and the name is reported as an unknown note.          *)
C1_UnderscoreSplit ==
    (OnlyC1NameScanned /\ DefaultParsing(layers[1], globalLayer))
        => IF layers[1].split = <<"_">>
           THEN /\ Entries(layers[1].dynamics) = {<<1, 36, 2>>}
                /\ layers[1].dynamics[1][36][2] = Sample(C1Name)
           ELSE /\ Entries(layers[1].dynamics) = {}
                /\ The(info).event = "unknown"

C1_Witness ==
    /\ OnlyC1NameScanned
    /\ DefaultParsing(layers[1], globalLayer)
    /\ layers[1].split = <<"_">>
    /\ Entries(layers[1].dynamics) = {<<1, 36, 2>>}

----------------------------------------------------------------------------
(* C3, as stated: whenever the chunks of a parsed name include a note      *)
(* token, the index parseNote derives (before octave and transpose are     *)
(* added) is the key of that token, whatever the other chunks and their    *)
(* order.                                                                  *)
C3_AsStated ==
    (Scanning /\ info # None) =>
        LET chunks == Chunks(layers[li], globalLayer, The(info).name)
        IN  \A i \in 1..Len(chunks) :
                IsNoteToken(chunks[i]) => The(info).parsed.index = ClaimedNoteKey(chunks[i])

(* C3, amended: the index parseNote derives is the key of the last chunk   *)
(* that is a note token or a plain number; when that chunk is a note token *)
(* it is pitchClass + semitone + 12*int of it, whatever dynamic,           *)
(* round-robin and unrecognized chunks the name holds, in any order, and   *)
(* whatever note and number chunks come before it.                         *)
C3_LastKeyToken ==
    (Scanning /\ info # None) =>
        LET chunks == Chunks(layers[li], globalLayer, The(info).name)
            keyed  == KeyPositions(chunks)
        IN  (keyed # {} /\ IsNoteToken(chunks[Max(keyed)]))
                => The(info).parsed.index = ClaimedNoteKey(chunks[Max(keyed)])

C3_Witness ==
    /\ Scanning
    /\ info # None
    /\ Chunks(layers[li], globalLayer, The(info).name) = <<<<"5">>, <<"c", "3">>>>
    /\ The(info).parsed.index = 36

----------------------------------------------------------------------------
(* C8, as stated: no registry ever holds a negative key index, and a name  *)
(* whose parsed key (of its note token or plain number) plus               *)
(* octaveOffset*12 + transpose is negative is rejected: scanning it leaves *)
(* the registry as it was.                                                 *)
ClaimedKey(layer, tok) ==
    IF IsNoteToken(tok) THEN ClaimedNoteKey(tok)
    ELSE DigitsToInt(tok) * layer.stride - layer.indexOffset

KeyedNegative(layer, g, name) ==
    LET chunks == Chunks(layer, g, name)
        keyed  == KeyPositions(chunks)
    IN  /\ keyed # {}
        /\ ClaimedKey(layer, chunks[Max(keyed)]) + layer.octaveOffset * 12 + layer.transpose < 0

NoNegativeKey(ls) == \A l \in 1..Len(ls) : \A e \in Entries(ls[l].dynamics) : e[2] >= 0

C8_AsStated ==
    [][ /\ NoNegativeKey(layers')
        /\ (pc = "scan" /\ info' # info /\ KeyedNegative(layers[li], globalLayer, The(info').name))
              => layers' = layers ]_vars

----------------------------------------------------------------------------
(* Vocabulary of the properties of the output.                             *)

Printing == pc \in {"close", "done", "raised"}

Complete == pc \in {"close", "done"}

Regions == {x \in 1..Len(outfile) : outfile[x].kind = "region"}

Groups == {x \in 1..Len(outfile) : outfile[x].kind = "group"}

(* the group block a region block stands in *)
GroupOf(x) == Max({y \in Groups : y < x})

RegionsOf(y) == {x \in Regions : GroupOf(x) = y}

LayerNamed(name) == layers[CHOOSE l \in 1..Len(layers) : layers[l].name = name]

(* the position, from 0, of a group among the groups of its layer *)
LevelIndex(y) == Cardinality({z \in Groups : z < y /\ outfile[z].layer = outfile[y].layer})

(* all keys of the dynamic level a group prints, ascending *)
LevelKeys(y) == Sorted(DOMAIN LayerNamed(outfile[y].layer).dynamics[outfile[y].dyn])

Position(keys, index) == CHOOSE p \in 1..Len(keys) : keys[p] = index

(* floor((a+b)/2) *)
Midpoint(a, b) == CHOOSE m \in a..b : 2 * m <= a + b /\ a + b < 2 * m + 2

ClaimedLow(keys, p) == IF p = 1 THEN None ELSE Some(Midpoint(keys[p - 1], keys[p]) + 1)

ClaimedHigh(keys, p) == IF p = Len(keys) THEN None ELSE Some(Midpoint(keys[p], keys[p + 1]))

(* a key index within the layer's min and max, where set *)
Within(layer, index) ==
    /\ (layer.min = None \/ The(layer.min) <= index)
    /\ (layer.max = None \/ index <= The(layer.max))

(* some finished region of the layer prints the sample stored at entry e *)
HasRegion(layer, e) ==
    \E x \in Regions :
        /\ outfile[x].layer = layer.name
        /\ outfile[GroupOf(x)].dyn = e[1]
        /\ outfile[x].index = e[2]
        /\ outfile[x].sample = <<layer.srcDir, layer.dynamics[e[1]][e[2]][e[3]].name>>
        /\ ~outfile[x].raised

----------------------------------------------------------------------------
(* C2, as stated: once the output is open, printInstrument never ends in   *)
(* an exception, and when it has ended the output holds a region for every *)
(* sample, of every layer that is not skipped, whose key is within the     *)
(* layer's min and max, whatever offset and vol the analyzer stored.       *)
C2_AsStated ==
    /\ pc # "raised"
    /\ Complete =>
          \A l \in 1..Len(layers) :
              Printed(layers[l], args) =>
                  \A e \in Entries(layers[l].dynamics) :
                      Within(layers[l], e[2]) => HasRegion(layers[l], e)

----------------------------------------------------------------------------
(* C4, as stated: for a layer with min and/or max set (0 included), no     *)
(* region is printed for a key below min or above max, a region is printed *)
(* for every sample whose key is within them, and each printed region's    *)
(* low and high bounds are those of the midpoint rule over all keys of the *)
(* dynamic level, the excluded ones included.                              *)
C4_AsStated ==
    \A l \in 1..Len(layers) :
        (Printed(layers[l], args) /\ (layers[l].min # None \/ layers[l].max # None)) =>
            /\ \A x \in Regions :
                  outfile[x].layer = layers[l].name =>
                      /\ Within(layers[l], outfile[x].index)
                      /\ LET keys == LevelKeys(GroupOf(x))
                             p    == Position(keys, outfile[x].index)
                         IN  /\ outfile[x].low = ClaimedLow(keys, p)
                             /\ outfile[x].high = ClaimedHigh(keys, p)
            /\ Complete =>
                  \A e \in Entries(layers[l].dynamics) :
                      Within(layers[l], e[2]) => HasRegion(layers[l], e)

----------------------------------------------------------------------------
(* C5: in every dynamic level printed with exact off, over the sorted keys *)
(* of the level: each border is floor((k[i]+k[i+1])/2); the bounds passed  *)
(* for a key are unset below the first key and above the last, and         *)
(* otherwise the border below plus 1 and the border above; so the high     *)
(* bound of a key is the low bound of the next key minus 1.                *)
C5_MidpointPartition ==
    \A y \in Groups :
        ~LayerNamed(outfile[y].layer).exact =>
            LET keys == LevelKeys(y)
            IN  /\ outfile[y].keys = keys
                /\ \A p \in 1..(Len(keys) - 1) : keys[p] < keys[p + 1]
                /\ Len(outfile[y].borders) = Len(keys) - 1
                /\ \A p \in 1..(Len(keys) - 1) :
                      outfile[y].borders[p] = Midpoint(keys[p], keys[p + 1])
                /\ \A x \in RegionsOf(y) :
                      LET p == Position(keys, outfile[x].index)
                      IN  /\ outfile[x].low = ClaimedLow(keys, p)
                          /\ outfile[x].high = ClaimedHigh(keys, p)
                /\ \A x1, x2 \in RegionsOf(y) :
                      Position(keys, outfile[x2].index) = Position(keys, outfile[x1].index) + 1
                          => The(outfile[x1].high) = The(outfile[x2].low) - 1

(* a region of a key that has keys on both sides, with exact off *)
C5_Witness ==
    \E x \in Regions :
        /\ ~LayerNamed(outfile[x].layer).exact
        /\ outfile[x].low # None
        /\ outfile[x].high # None
        /\ \E x2 \in RegionsOf(GroupOf(x)) : outfile[x2].low = Some(The(outfile[x].high) + 1)

----------------------------------------------------------------------------
(* C6, as stated: for every key printed in a dynamic level, with N the     *)
(* number of its round-robin entries: when N = 1 its region carries no     *)
(* seq_length and no seq_position; when N > 1 it has N regions, each with  *)
(* seq_length=N, and their seq_position, in ascending order of the         *)
(* round-robin index, are 1..N.                                            *)
RoundRobinsPrinted(y, index) ==
    LET robins == LayerNamed(outfile[y].layer).dynamics[outfile[y].dyn][index]
        rrs    == Sorted(DOMAIN robins)
        mine   == Sorted({x \in RegionsOf(y) : outfile[x].index = index})
    IN  IF Len(rrs) = 1
        THEN \A j \in 1..Len(mine) :
                 outfile[mine[j]].seq_length = None /\ outfile[mine[j]].seq_position = None
        ELSE /\ Len(mine) = Len(rrs)
             /\ \A j \in 1..Len(mine) :
                   /\ outfile[mine[j]].seq_length = Some(Len(rrs))
                   /\ outfile[mine[j]].seq_position = Some(j)
                   /\ outfile[mine[j]].sample[2] = robins[rrs[j]].name

C6_AsStated ==
    \A y \in Groups : \A x \in RegionsOf(y) : RoundRobinsPrinted(y, outfile[x].index)

(* the same, of the runs in which printInstrument returns *)
C6_WhenComplete == Complete => C6_AsStated

----------------------------------------------------------------------------
(* C9, as stated: a region printed with exact off and bounds not both      *)
(* equal to its key carries pitch_keycenter, carries lokey with the low    *)
(* bound exactly when the low bound is not None, and hikey with the high   *)
(* bound exactly when the high bound is not None (0 included).             *)
C9_AsStated ==
    \A x \in Regions :
        LET r == outfile[x]
        IN  (~LayerNamed(r.layer).exact /\ ~(r.low = Some(r.index) /\ r.high = Some(r.index)))
                => /\ r.pitch_keycenter = Some(r.index)
                   /\ r.key = None
                   /\ r.lokey = r.low
                   /\ r.hikey = r.high

----------------------------------------------------------------------------
(* C7, as stated: every value velBorder returns to printLayer lies in      *)
(* 0..127, and the values are non-decreasing in the level index.           *)
(* printLayer passes velBorder(i) as the low bound of level i and          *)
(* velBorder(i+1) - 1 as the high bound.                                   *)
BorderBelow(y) == The(outfile[y].low)

BorderAbove(y) == The(outfile[y].high) + 1

C7_AsStated ==
    \A y \in Groups :
        /\ outfile[y].low # None => BorderBelow(y) \in 0..(VelocitySteps - 1)
        /\ outfile[y].high # None => BorderAbove(y) \in 0..(VelocitySteps - 1)
        /\ (outfile[y].low # None /\ outfile[y].high # None) => BorderBelow(y) <= BorderAbove(y)

----------------------------------------------------------------------------
(* C10, as stated: the group of the level at position i of n carries lovel *)
(* = boundary(i) exactly when i > 0 and hivel = boundary(i+1) - 1 exactly  *)
(* when i < n-1; every lovel and hivel printed lies in 0..127, and the     *)
(* hivel of a level is the lovel of the next level minus 1.                *)
C10_AsStated ==
    \A y \in Groups :
        LET layer == LayerNamed(outfile[y].layer)
            n     == Cardinality(DOMAIN layer.dynamics)
            i     == LevelIndex(y)
        IN  /\ outfile[y].lovel = IF i > 0 THEN Some(velBorder(layer, i, n)) ELSE None
            /\ outfile[y].hivel = IF i < n - 1 THEN Some(velBorder(layer, i + 1, n) - 1) ELSE None
            /\ outfile[y].lovel \subseteq 0..(VelocitySteps - 1)
            /\ outfile[y].hivel \subseteq 0..(VelocitySteps - 1)
            /\ \A z \in Groups :
                  (outfile[z].layer = outfile[y].layer /\ LevelIndex(z) = i + 1)
                      => outfile[z].lovel = Some(The(outfile[y].hivel) + 1)

----------------------------------------------------------------------------
(* C11, as stated: parseNote takes the no-key fallback (onekey: stored at  *)
(* key 60; else unpitched: stored at a placeholder key; else rejected as   *)
(* unknown) exactly when no chunk of the name is a note or a plain number; *)
(* a name with such a chunk, whatever key it yields, goes on to the        *)
(* octave/transpose step: it is stored at that key plus                    *)
(* octaveOffset*12 + transpose when the sum is not negative, and rejected  *)
(* as negative otherwise.                                                  *)
FallbackTaken(layer, e) ==
    IF layer.onekey THEN e.event = "stored" /\ e.index = Some(OneKeyIndex)
    ELSE IF layer.unpitched THEN e.event = "stored"
    ELSE e.event = "unknown"

C11_AsStated ==
    (Scanning /\ info # None) =>
        LET layer  == layers[li]
            e      == The(info)
            chunks == Chunks(layer, globalLayer, e.name)
            keyed  == KeyPositions(chunks)
        IN  IF keyed = {}
            THEN FallbackTaken(layer, e)
            ELSE LET key == ClaimedKey(layer, chunks[Max(keyed)])
                            + layer.octaveOffset * 12 + layer.transpose
                 IN  IF key >= 0
                     THEN e.event = "stored" /\ e.index = Some(key)
                     ELSE e.event = "negative"

====
